---- MODULE Spec2Model ----
(***************************************************************************)
(* Skin disease detector: the decision pipeline of the Streamlit app.      *)
(*   config/settings.py          thresholds, limits, keys                  *)
(*   utils/model_utils.py        load_class_names, load_model,             *)
(*                               predict_image, compute_severity           *)
(*   utils/image_utils.py        validate_uploaded_file                    *)
(*   services/gemini_service.py  get_preventive_measures_from_gemini       *)
(*   streamlit_app.py            main, perform_analysis                    *)
(*                                                                         *)
(* Floats are modelled as exact rationals [num, den] with den > 0, so a    *)
(* comparison against a threshold and a sum of probabilities are exact.    *)
(* Strings that the code only compares are TLA+ strings; strings that the  *)
(* code takes apart (file names, response text) are sequences of           *)
(* one-character strings.                                                  *)
(***************************************************************************)
EXTENDS Integers, Sequences, FiniteSets, TLC

VARIABLES
    THRESHOLD_MILD,      \* settings.py:21, a rational
    THRESHOLD_SEVERE,    \* settings.py:22, a rational
    HIGH_RISK_DISEASES,  \* settings.py:25, a set of labels
    GEMINI_API_KEY,      \* settings.py:28, TRUE when a key is configured
    WEIGHTS_URL,         \* settings.py:29, TRUE when a URL is configured
    call,                \* the function under call and its arguments
    result,              \* what the call returned, NoResult before it returns
    fs,                  \* the files and packages load_* look at
    cache,               \* the st.cache_resource store of the process
    lm,                  \* the frame of a running load_model body
    run,                 \* the script run of main: its position and locals
    hist,                \* observations: file reads, values returned, analyses
    session              \* st.session_state

vars == <<THRESHOLD_MILD, THRESHOLD_SEVERE, HIGH_RISK_DISEASES, GEMINI_API_KEY,
          WEIGHTS_URL, call, result, fs, cache, lm, run, hist, session>>

procvars == <<fs, cache, lm, run, hist, session>>

config == <<THRESHOLD_MILD, THRESHOLD_SEVERE, HIGH_RISK_DISEASES, GEMINI_API_KEY,
            WEIGHTS_URL>>

NoCall == [fn |-> "none"]
NoResult == [returned |-> FALSE]

\* The process part of the state when a single function is exercised.
NoProcess ==
    /\ fs = [mounted |-> FALSE]
    /\ cache = [mounted |-> FALSE]
    /\ lm = [pc |-> "idle"]
    /\ run = [pc |-> "idle"]
    /\ hist = [mounted |-> FALSE]
    /\ session = [mounted |-> FALSE]

----------------------------------------------------------------------------
(* Rationals *)

Rat(n, d) == [num |-> n, den |-> d]
RLess(a, b) == a.num * b.den < b.num * a.den
RLeq(a, b) == a.num * b.den <= b.num * a.den
REq(a, b) == a.num * b.den = b.num * a.den
RAdd(a, b) == Rat(a.num * b.den + b.num * a.den, a.den * b.den)
RZero == Rat(0, 1)
ROne == Rat(1, 1)

----------------------------------------------------------------------------
(* config/settings.py *)

\* The defaults of settings.py:21-22, in hundredths.
DefaultMildPercent == 45
DefaultSeverePercent == 80

\* Thresholds come from the secrets when present, else the defaults; the
\* loader does not order them.
ThresholdChoices ==
    {Rat(DefaultMildPercent, 100), Rat(DefaultSeverePercent, 100), Rat(60, 100)}

\* Labels a class file or the secrets can hold. "1" is also the decimal form
\* of an index.
Labels == {"melanoma", "eczema", "1"}

ConfigInit ==
    /\ THRESHOLD_MILD \in ThresholdChoices
    /\ THRESHOLD_SEVERE \in ThresholdChoices
    /\ HIGH_RISK_DISEASES \in SUBSET Labels
    /\ GEMINI_API_KEY \in BOOLEAN
    /\ WEIGHTS_URL \in BOOLEAN

DefaultConfig ==
    /\ THRESHOLD_MILD = Rat(DefaultMildPercent, 100)
    /\ THRESHOLD_SEVERE = Rat(DefaultSeverePercent, 100)
    /\ HIGH_RISK_DISEASES = {}
    /\ GEMINI_API_KEY = FALSE
    /\ WEIGHTS_URL = FALSE

----------------------------------------------------------------------------
(* utils/model_utils.py: compute_severity *)

\* A plausible slip: the thresholds are compared before the high-risk set.
compute_severity_thresholds_first(confidence, disease_name, high_risk_diseases) ==
    IF RLess(confidence, THRESHOLD_MILD) THEN "mild"
    ELSE IF disease_name \in high_risk_diseases THEN "severe"
    ELSE IF RLess(confidence, THRESHOLD_SEVERE) THEN "moderate"
    ELSE "severe"

\* A plausible slip: <= instead of < at the thresholds.
compute_severity_inclusive(confidence, disease_name, high_risk_diseases) ==
    IF disease_name \in high_risk_diseases THEN "severe"
    ELSE IF RLeq(confidence, THRESHOLD_MILD) THEN "mild"
    ELSE IF RLeq(confidence, THRESHOLD_SEVERE) THEN "moderate"
    ELSE "severe"

compute_severity(confidence, disease_name, high_risk_diseases) ==
    IF disease_name \in high_risk_diseases THEN "severe"
    ELSE IF RLess(confidence, THRESHOLD_MILD) THEN "mild"
    ELSE IF RLess(confidence, THRESHOLD_SEVERE) THEN "moderate"
    ELSE "severe"

\* Confidence values k/ConfGrid, k in 0..ConfGrid: with ConfGrid = 20 the
\* grid holds 0.45 and 0.80 exactly and both neighbours of each.
ConfGrid == 20
Confidences ==
    {Rat(k, ConfGrid) : k \in 0..ConfGrid}
        \cup {Rat(44999, 100000), Rat(79999, 100000)}

SeverityInit ==
    /\ ConfigInit
    /\ GEMINI_API_KEY = FALSE
    /\ WEIGHTS_URL = FALSE
    /\ call \in [fn : {"compute_severity"}, confidence : Confidences,
                 disease_name : Labels]
    /\ result = NoResult
    /\ NoProcess

\* perform_analysis calls compute_severity with the default third argument,
\* which is HIGH_RISK_DISEASES (model_utils.py:127-128).
CallComputeSeverity ==
    /\ call.fn = "compute_severity"
    /\ ~result.returned
    /\ result' = [returned |-> TRUE,
                  value |-> compute_severity(call.confidence, call.disease_name,
                                             HIGH_RISK_DISEASES)]
    /\ UNCHANGED <<config, call, procvars>>

SeverityNext == CallComputeSeverity

SpecSeverity == SeverityInit /\ [][SeverityNext]_vars

SeverityReturned == call.fn = "compute_severity" /\ result.returned
Tiers == {"mild", "moderate", "severe"}

\* C1: a disease in the high-risk set is "severe" whatever the confidence,
\* also at confidence 0 and below THRESHOLD_MILD.
C1_HighRiskAlwaysSevere ==
    (SeverityReturned /\ call.disease_name \in HIGH_RISK_DISEASES)
        => result.value = "severe"

C1_Witness ==
    /\ SeverityReturned
    /\ call.disease_name \in HIGH_RISK_DISEASES
    /\ REq(call.confidence, RZero)
    /\ RLess(call.confidence, THRESHOLD_MILD)
    /\ result.value = "severe"

----------------------------------------------------------------------------
(* utils/model_utils.py: predict_image, from the model's output on *)

RECURSIVE SumSeq(_)
SumSeq(s) == IF s = <<>> THEN 0 ELSE Head(s) + SumSeq(Tail(s))

\* str(i) for an index below ten.
DecimalDigits == <<"0", "1", "2", "3", "4", "5", "6", "7", "8", "9">>
str(i) == DecimalDigits[i + 1]

\* model_utils.py:100-104: the sum, then uniform or proportional.
normalize(preds) ==
    LET s == SumSeq(preds)
    IN  IF s <= 0
        THEN [i \in 1..Len(preds) |-> Rat(1, Len(preds))]
        ELSE [i \in 1..Len(preds) |-> Rat(preds[i], s)]

\* A plausible slip: the last index of a maximal entry (>= kept while
\* scanning) instead of the first.
argmax_last(probs) ==
    CHOOSE i \in 0..(Len(probs) - 1) :
        /\ \A j \in 0..(Len(probs) - 1) : RLeq(probs[j + 1], probs[i + 1])
        /\ \A j \in (i + 1)..(Len(probs) - 1) : ~REq(probs[j + 1], probs[i + 1])

\* np.argmax: the first index (0-based) of a maximal entry.
argmax(probs) ==
    CHOOSE i \in 0..(Len(probs) - 1) :
        /\ \A j \in 0..(Len(probs) - 1) : RLeq(probs[j + 1], probs[i + 1])
        /\ \A j \in 0..(i - 1) : ~REq(probs[j + 1], probs[i + 1])

\* model_utils.py:108-111 and 115: the registry's entry, else the index.
label_of(class_names, i) ==
    IF class_names # <<>> /\ Len(class_names) > i
    THEN class_names[i + 1] ELSE str(i)

\* model_utils.py:113-116: a dict filled in index order; a later index
\* with the same name overwrites the earlier one.
probs_map(probs, class_names) ==
    LET N == Len(probs)
        names == {label_of(class_names, i) : i \in 0..(N - 1)}
        last(name) == CHOOSE i \in 0..(N - 1) :
            /\ label_of(class_names, i) = name
            /\ \A j \in (i + 1)..(N - 1) : label_of(class_names, j) # name
    IN  [name \in names |-> probs[last(name) + 1]]

predict_image(preds, class_names) ==
    LET probs == normalize(preds)
        top_idx == argmax(probs)
    IN  [class_id |-> top_idx,
         disease |-> label_of(class_names, top_idx),
         confidence |-> probs[top_idx + 1],
         probabilities |-> probs_map(probs, class_names)]

\* Raw scores: a model's output vector of 1..MaxClasses entries. A softmax
\* head gives non-negative entries; other heads can give negative ones.
MaxClasses == 3
MaxScore == 2
RawScores ==
    UNION {[1..n -> (-1)..MaxScore] : n \in 1..MaxClasses}

\* Class registries: what load_class_names can return, duplicates and a
\* registry shorter than the score vector included.
ClassRegistries ==
    UNION {[1..n -> Labels] : n \in 0..MaxClasses}

PredictInit ==
    /\ DefaultConfig
    /\ call \in [fn : {"predict_image"}, preds : RawScores,
                 class_names : ClassRegistries]
    /\ result = NoResult
    /\ NoProcess

CallPredictImage ==
    /\ call.fn = "predict_image"
    /\ ~result.returned
    /\ result' = [returned |-> TRUE,
                  value |-> predict_image(call.preds, call.class_names)]
    /\ UNCHANGED <<config, call, procvars>>

PredictNext == CallPredictImage

SpecPredict == PredictInit /\ [][PredictNext]_vars

PredictReturned == call.fn = "predict_image" /\ result.returned

RECURSIVE SumValues(_, _)
SumValues(f, keys) ==
    IF keys = {} THEN RZero
    ELSE LET k == CHOOSE x \in keys : TRUE
         IN  RAdd(f[k], SumValues(f, keys \ {k}))

InUnit(r) == RLeq(RZero, r) /\ RLeq(r, ROne)

\* C3: with a positive sum of the raw scores, for every registry, the
\* probabilities sum to 1, every probability and the confidence are in
\* [0,1], and the confidence is the probability stored under the disease.
C3_Distribution ==
    (PredictReturned /\ SumSeq(call.preds) > 0) =>
        LET r == result.value
        IN  /\ REq(SumValues(r.probabilities, DOMAIN r.probabilities), ROne)
            /\ \A k \in DOMAIN r.probabilities : InUnit(r.probabilities[k])
            /\ InUnit(r.confidence)
            /\ REq(r.confidence, r.probabilities[r.disease])

\* The same with the scores non-negative (the softmax-style output the
\* design assumes): still violated, by a registry that names two indexes
\* alike.
C3_DistributionNonNegative ==
    (/\ PredictReturned
     /\ SumSeq(call.preds) > 0
     /\ \A i \in 1..Len(call.preds) : call.preds[i] >= 0) =>
        LET r == result.value
        IN  /\ REq(SumValues(r.probabilities, DOMAIN r.probabilities), ROne)
            /\ REq(r.confidence, r.probabilities[r.disease])

\* C4: with a sum of the raw scores that is zero or negative, the
\* probabilities are N entries of 1/N each and the confidence is 1/N.
C4_UniformFallback ==
    (PredictReturned /\ SumSeq(call.preds) <= 0) =>
        LET r == result.value
            N == Len(call.preds)
        IN  /\ Cardinality(DOMAIN r.probabilities) = N
            /\ \A k \in DOMAIN r.probabilities :
                   REq(r.probabilities[k], Rat(1, N))
            /\ REq(r.confidence, Rat(1, N))

\* What does hold on the fallback: every stored entry and the confidence
\* are 1/N, and there are N entries when the N names are distinct.
C4_UniformValues ==
    (PredictReturned /\ SumSeq(call.preds) <= 0) =>
        LET r == result.value
            N == Len(call.preds)
        IN  /\ \A k \in DOMAIN r.probabilities :
                   REq(r.probabilities[k], Rat(1, N))
            /\ REq(r.confidence, Rat(1, N))
            /\ Cardinality(DOMAIN r.probabilities) =
                   Cardinality({label_of(call.class_names, i) : i \in 0..(N - 1)})

\* C11: class_id is an index of a maximal entry of the normalised vector,
\* and the lowest such index when several entries tie for the maximum.
C11_ArgMaxLowestIndex ==
    PredictReturned =>
        LET probs == normalize(call.preds)
            top == result.value.class_id
        IN  /\ top \in 0..(Len(call.preds) - 1)
            /\ \A j \in 1..Len(probs) : ~RLess(probs[top + 1], probs[j])
            /\ \A j \in 1..top : RLess(probs[j], probs[top + 1])
            /\ REq(result.value.confidence, probs[top + 1])

\* Two entries tie for the maximum after a smaller one: the first of the two
\* is returned.
C11_Witness ==
    /\ PredictReturned
    /\ call.preds = <<1, 2, 2>>
    /\ result.value.class_id = 1

----------------------------------------------------------------------------
(* utils/image_utils.py: validate_uploaded_file *)

MAX_FILE_SIZE == 10 * 1024 * 1024
SUPPORTED_FORMATS ==
    << <<"j", "p", "g">>, <<"j", "p", "e", "g">>, <<"p", "n", "g">> >>

Range(s) == {s[i] : i \in 1..Len(s)}

\* str.lower, one character at a time.
LowerChar(c) ==
    CASE c = "A" -> "a" []
      c = "B" -> "b" []
      c = "C" -> "c" []
      c = "D" -> "d" []
      c = "E" -> "e" []
      c = "F" -> "f" []
      c = "G" -> "g" []
      c = "H" -> "h" []
      c = "I" -> "i" []
      c = "J" -> "j" []
      c = "K" -> "k" []
      c = "L" -> "l" []
      c = "M" -> "m" []
      c = "N" -> "n" []
      c = "O" -> "o" []
      c = "P" -> "p" []
      c = "Q" -> "q" []
      c = "R" -> "r" []
      c = "S" -> "s" []
      c = "T" -> "t" []
      c = "U" -> "u" []
      c = "V" -> "v" []
      c = "W" -> "w" []
      c = "X" -> "x" []
      c = "Y" -> "y" []
      c = "Z" -> "z"
      [] OTHER -> c
lower(s) == [i \in 1..Len(s) |-> LowerChar(s[i])]

\* str.split(sep) for a one-character separator: the pieces between the
\* separators, empty pieces included; never an empty list.
RECURSIVE split(_, _)
split(s, sep) ==
    IF \A i \in 1..Len(s) : s[i] # sep THEN <<s>>
    ELSE LET k == CHOOSE i \in 1..Len(s) :
                      s[i] = sep /\ \A j \in 1..(i - 1) : s[j] # sep
         IN  <<SubSeq(s, 1, k - 1)>> \o split(SubSeq(s, k + 1, Len(s)), sep)

Last(s) == s[Len(s)]

NoFile == [none |-> TRUE]

\* A plausible slip: a file of exactly the maximum size is turned away.
validate_uploaded_file_off_by_one(uploaded_file) ==
    IF uploaded_file = NoFile
    THEN [ok |-> FALSE, message |-> "No file uploaded"]
    ELSE IF uploaded_file.size >= MAX_FILE_SIZE
    THEN [ok |-> FALSE, message |-> "File size exceeds limit"]
    ELSE IF lower(Last(split(uploaded_file.name, "."))) \notin Range(SUPPORTED_FORMATS)
    THEN [ok |-> FALSE, message |-> "Unsupported format"]
    ELSE [ok |-> TRUE, message |-> "Valid file"]

validate_uploaded_file(uploaded_file) ==
    IF uploaded_file = NoFile
    THEN [ok |-> FALSE, message |-> "No file uploaded"]
    ELSE IF uploaded_file.size > MAX_FILE_SIZE
    THEN [ok |-> FALSE, message |-> "File size exceeds limit"]
    ELSE IF lower(Last(split(uploaded_file.name, "."))) \notin Range(SUPPORTED_FORMATS)
    THEN [ok |-> FALSE, message |-> "Unsupported format"]
    ELSE [ok |-> TRUE, message |-> "Valid file"]

\* Declared file names: every string of up to MaxNameLen of these characters.
MaxNameLen == 5
NameChars == {".", "p", "n", "g", "j", "P"}
FileNames == UNION {[1..n -> NameChars] : n \in 0..MaxNameLen}
FileSizes == {0, 1, MAX_FILE_SIZE - 1, MAX_FILE_SIZE, MAX_FILE_SIZE + 1}
UploadedFiles == [name : FileNames, size : FileSizes]

ValidateInit ==
    /\ DefaultConfig
    /\ \E f \in UploadedFiles \cup {NoFile} :
           call = [fn |-> "validate_uploaded_file", uploaded_file |-> f]
    /\ result = NoResult
    /\ NoProcess

CallValidateUploadedFile ==
    /\ call.fn = "validate_uploaded_file"
    /\ ~result.returned
    /\ result' = [returned |-> TRUE,
                  value |-> validate_uploaded_file(call.uploaded_file)]
    /\ UNCHANGED <<config, call, procvars>>

ValidateNext == CallValidateUploadedFile

SpecValidate == ValidateInit /\ [][ValidateNext]_vars

ValidateReturned == call.fn = "validate_uploaded_file" /\ result.returned

\* The part of a name after its last '.', the whole name when it has none,
\* read off the positions of the dots.
AfterLastDot(name) ==
    LET dots == {i \in 1..Len(name) : name[i] = "."}
        k == IF dots = {} THEN 0
             ELSE CHOOSE i \in dots : \A j \in dots : j <= i
    IN  [i \in 1..(Len(name) - k) |-> name[k + i]]

ExtensionSupported(name) ==
    \E fmt \in Range(SUPPORTED_FORMATS) :
        /\ Len(AfterLastDot(name)) = Len(fmt)
        /\ \A i \in 1..Len(fmt) : LowerChar(AfterLastDot(name)[i]) = fmt[i]

\* C5: a file is accepted exactly when it is supplied, its size is at most
\* MAX_FILE_SIZE and the lower-cased part of its name after the last '.' is
\* jpg, jpeg or png; otherwise the reason is that of the first failing check
\* in the order no file, too large, unsupported format.
C5_ValidateExact ==
    ValidateReturned =>
        LET f == call.uploaded_file
            v == result.value
        IN  /\ v.ok <=> (/\ f # NoFile
                         /\ f.size <= MAX_FILE_SIZE
                         /\ ExtensionSupported(f.name))
            /\ v.ok => v.message = "Valid file"
            /\ f = NoFile => v.message = "No file uploaded"
            /\ (f # NoFile /\ f.size > MAX_FILE_SIZE)
                   => v.message = "File size exceeds limit"
            /\ (f # NoFile /\ f.size <= MAX_FILE_SIZE /\ ~ExtensionSupported(f.name))
                   => v.message = "Unsupported format"

C5_Witness ==
    /\ ValidateReturned
    /\ call.uploaded_file # NoFile
    /\ call.uploaded_file.size = MAX_FILE_SIZE
    /\ call.uploaded_file.name = <<"p", ".", "P", "n", "g">>
    /\ result.value.ok

----------------------------------------------------------------------------
(* utils/model_utils.py: load_class_names *)

\* Parsed JSON: a string (its text in s) or a list of strings (its items
\* in v) as a value, a list or an insertion-ordered object with distinct
\* keys at the top.
JStr(x) == [t |-> "str", s |-> x, v |-> <<>>]
JList(xs) == [t |-> "list", s |-> "", v |-> xs]
JArray(items) == [kind |-> "list", items |-> items, pairs |-> <<>>]
JObject(pairs) == [kind |-> "dict", items |-> <<>>, pairs |-> pairs]
Absent == [kind |-> "absent", items |-> <<>>, pairs |-> <<>>]
Malformed == [kind |-> "malformed", items |-> <<>>, pairs |-> <<>>]
JScalar == [kind |-> "scalar", items |-> <<>>, pairs |-> <<>>]

KeysOf(pairs) == {pairs[i].k : i \in 1..Len(pairs)}
ValueAt(pairs, key) == pairs[CHOOSE i \in 1..Len(pairs) : pairs[i].k = key].v

\* A plausible slip: the numeric-key branch is missing, an object that is
\* not {"classes": [...]} always yields its values in insertion order.
classes_from_data_unsorted(data) ==
    IF data.kind = "dict" THEN
        LET n == Len(data.pairs)
        IN  IF "classes" \in KeysOf(data.pairs)
                   /\ ValueAt(data.pairs, "classes").t = "list"
            THEN ValueAt(data.pairs, "classes").v
            ELSE [i \in 1..n |-> data.pairs[i].v]
    ELSE IF data.kind = "list" THEN data.items
    ELSE <<>>

\* model_utils.py:36-45, on the parsed data.
classes_from_data(data) ==
    IF data.kind = "dict" THEN
        LET n == Len(data.pairs)
        IN  IF "classes" \in KeysOf(data.pairs)
                   /\ ValueAt(data.pairs, "classes").t = "list"
            THEN ValueAt(data.pairs, "classes").v
            ELSE IF \A i \in 0..(n - 1) : str(i) \in KeysOf(data.pairs)
            THEN [i \in 1..n |-> ValueAt(data.pairs, str(i - 1))]
            ELSE [i \in 1..n |-> data.pairs[i].v]
    ELSE IF data.kind = "list" THEN data.items
    ELSE <<>>

\* The body of load_class_names on the file as it is now: no read when the
\* file is missing, an exception out of json.load when it does not parse.
load_class_names(file) ==
    IF file.kind = "absent"
    THEN [raised |-> FALSE, read |-> FALSE, value |-> <<>>]
    ELSE IF file.kind = "malformed"
    THEN [raised |-> TRUE, read |-> TRUE, value |-> <<>>]
    ELSE [raised |-> FALSE, read |-> TRUE, value |-> classes_from_data(file)]

\* The class files load_class_names is exercised on: every top-level list
\* and every object of at most MaxPairs entries, keys distinct and in any
\* insertion order, next to the missing, unparsable and scalar files.
MaxPairs == 3

JsonKeys == {str(i) : i \in 0..(MaxPairs - 1)} \cup {"classes", "x"}
JsonValues ==
    {JStr("melanoma"), JStr("eczema"), JList(<<JStr("eczema"), JStr("melanoma")>>)}

DistinctKeys(n) ==
    {ks \in [1..n -> JsonKeys] : \A i, j \in 1..n : i # j => ks[i] # ks[j]}

JsonObjects ==
    UNION {{JObject([i \in 1..n |-> [k |-> ks[i], v |-> vs[i]]]) :
                ks \in DistinctKeys(n), vs \in [1..n -> JsonValues]} :
           n \in 0..MaxPairs}

JsonArrays ==
    UNION {{JArray(items) : items \in [1..n -> JsonValues]} : n \in 0..MaxPairs}

ClassFiles == {Absent, Malformed, JScalar} \cup JsonArrays \cup JsonObjects

ClassesInit ==
    /\ DefaultConfig
    /\ call \in [fn : {"load_class_names"}, file : ClassFiles]
    /\ result = NoResult
    /\ NoProcess

\* One uncached call of load_class_names on the file of the call.
CallLoadClassNamesBody ==
    /\ call.fn = "load_class_names"
    /\ ~result.returned
    /\ result' = [returned |-> TRUE, value |-> load_class_names(call.file)]
    /\ UNCHANGED <<config, call, procvars>>

ClassesNext == CallLoadClassNamesBody

SpecClasses == ClassesInit /\ [][ClassesNext]_vars

ClassesReturned == call.fn = "load_class_names" /\ result.returned

\* The number a key is the decimal form of.
NumOf(key) == CHOOSE i \in 0..(Len(DecimalDigits) - 1) : str(i) = key

\* C12: a top-level list comes back unchanged; an object with a "classes"
\* key holding a list gives that list; an object whose keys are the string
\* forms of 0..N-1, in any insertion order, gives the values by ascending
\* numeric key; any other object gives its values in insertion order; a
\* missing file gives the empty sequence and no error.
C12_ClassNameShapes ==
    ClassesReturned =>
        LET file == call.file
            out == result.value
            pairs == file.pairs
            n == Len(pairs)
            HasClassesList ==
                \E i \in 1..n : pairs[i].k = "classes" /\ pairs[i].v.t = "list"
            NumericKeys == KeysOf(pairs) = {str(i) : i \in 0..(n - 1)}
        IN  /\ file.kind = "absent" => (~out.raised /\ out.value = <<>>)
            /\ file.kind = "list" => (~out.raised /\ out.value = file.items)
            /\ (file.kind = "dict" /\ HasClassesList) =>
                  /\ ~out.raised
                  /\ \E i \in 1..n : /\ pairs[i].k = "classes"
                                     /\ out.value = pairs[i].v.v
            /\ (file.kind = "dict" /\ ~HasClassesList /\ NumericKeys) =>
                  /\ ~out.raised
                  /\ Len(out.value) = n
                  /\ \A i \in 1..n : out.value[NumOf(pairs[i].k) + 1] = pairs[i].v
            /\ (file.kind = "dict" /\ ~HasClassesList /\ ~NumericKeys) =>
                  /\ ~out.raised
                  /\ Len(out.value) = n
                  /\ \A i \in 1..n : out.value[i] = pairs[i].v

\* Keys "2", "0", "1" in that insertion order: the values come back in the
\* order of the keys 0, 1, 2.
C12_Witness ==
    /\ ClassesReturned
    /\ call.file = JObject(<<[k |-> "2", v |-> JStr("eczema")],
                             [k |-> "0", v |-> JStr("melanoma")],
                             [k |-> "1", v |-> JStr("eczema")]>>)
    /\ result.value.value = <<JStr("melanoma"), JStr("eczema"), JStr("eczema")>>

----------------------------------------------------------------------------
(* st.cache_resource, as load_class_names and load_model are decorated *)

NotCached == [cached |-> FALSE, value |-> <<>>]
Cached(v) == [cached |-> TRUE, value |-> v]

\* A plausible slip: the decorator is missing, every call runs the body.
cache_hit_never(entry) == FALSE

\* A call whose entry is stored returns the stored value and skips the body;
\* a body that raises stores nothing. Nothing in the code clears an entry.
cache_hit(entry) == entry.cached

----------------------------------------------------------------------------
(* The start of a script run of main (streamlit_app.py:47-55) and the body
   of load_model (model_utils.py:47-86), one step per attempt *)

MaxRuns == 3

FileStates == {"absent", "good", "corrupt"}
Strategies == <<"h5", "download", "pkl">>

ClassFilesSmall ==
    {Absent, Malformed,
     JArray(<<JStr("melanoma"), JStr("eczema")>>),
     JObject(<<[k |-> "1", v |-> JStr("eczema")], [k |-> "0", v |-> JStr("melanoma")]>>),
     JArray(<<JStr("eczema")>>)}

BetweenRuns == run.pc \in {"idle", "loaded", "stopped"}

IdleFrame == [pc |-> "idle", tried |-> <<>>, failed |-> {}, skipped |-> {},
              model |-> "none"]

LoadInit ==
    /\ THRESHOLD_MILD = Rat(DefaultMildPercent, 100)
    /\ THRESHOLD_SEVERE = Rat(DefaultSeverePercent, 100)
    /\ HIGH_RISK_DISEASES = {}
    /\ GEMINI_API_KEY = FALSE
    /\ WEIGHTS_URL \in BOOLEAN
    /\ call = NoCall
    /\ result = NoResult
    /\ fs \in [classes : {Absent, Malformed, JArray(<<JStr("melanoma"), JStr("eczema")>>)},
               h5 : FileStates, pkl : FileStates,
               tf : BOOLEAN, tf_cpu : BOOLEAN]
    /\ cache = [classes |-> NotCached, model |-> NotCached]
    /\ lm = IdleFrame
    /\ run = [pc |-> "idle", n |-> 0]
    /\ hist = [file_reads |-> 0, class_returns |-> {}, class_stores |-> 0,
               model_returns |-> {}, model_stores |-> 0]
    /\ session = [mounted |-> FALSE]

\* A rerun of the script: any interaction with the page.
RunStart ==
    /\ BetweenRuns
    /\ run.n < MaxRuns
    /\ run' = [pc |-> "load_class_names", n |-> run.n + 1]
    /\ UNCHANGED <<config, call, result, fs, cache, lm, hist, session>>

\* streamlit_app.py:49: class_names = load_class_names(), through the cache;
\* an exception goes to main's handler, which reports and stops the run.
CallLoadClassNames ==
    /\ run.pc = "load_class_names"
    /\ IF cache_hit(cache.classes)
       THEN /\ hist' = [hist EXCEPT !.class_returns = @ \cup {cache.classes.value}]
            /\ run' = [run EXCEPT !.pc = "load_model"]
            /\ UNCHANGED cache
       ELSE LET r == load_class_names(fs.classes)
            IN  IF r.raised
                THEN /\ hist' = [hist EXCEPT !.file_reads = @ + 1]
                     /\ run' = [run EXCEPT !.pc = "stopped"]
                     /\ UNCHANGED cache
                ELSE /\ hist' = [hist EXCEPT
                            !.file_reads = @ + (IF r.read THEN 1 ELSE 0),
                            !.class_returns = @ \cup {r.value},
                            !.class_stores = @ + 1]
                     /\ cache' = [cache EXCEPT !.classes = Cached(r.value)]
                     /\ run' = [run EXCEPT !.pc = "load_model"]
    /\ UNCHANGED <<config, call, result, fs, lm, session>>

\* streamlit_app.py:50: model = load_model(), through the cache; on a miss
\* the body starts with ensure_model_dir().
CallLoadModel ==
    /\ run.pc = "load_model"
    /\ IF cache_hit(cache.model)
       THEN /\ hist' = [hist EXCEPT !.model_returns = @ \cup {cache.model.value}]
            /\ run' = [run EXCEPT !.pc = "loaded"]
            /\ UNCHANGED lm
       ELSE /\ lm' = [IdleFrame EXCEPT !.pc = "import"]
            /\ run' = [run EXCEPT !.pc = "in_load_model"]
            /\ UNCHANGED hist
    /\ UNCHANGED <<config, call, result, fs, cache, session>>

\* model_utils.py:51-58: tensorflow, else tensorflow_cpu, else st.error and
\* st.stop(), which ends the script run.
LoadModelImport ==
    /\ lm.pc = "import"
    /\ IF fs.tf \/ fs.tf_cpu
       THEN /\ lm' = [lm EXCEPT !.pc = "h5"]
            /\ UNCHANGED run
       ELSE /\ lm' = [lm EXCEPT !.pc = "stopped"]
            /\ run' = [run EXCEPT !.pc = "stopped"]
    /\ UNCHANGED <<config, call, result, fs, cache, hist, session>>

\* The body returns `which`: the decorator stores it, main goes on.
ReturnModel(which) ==
    /\ lm' = [lm EXCEPT !.pc = "returned", !.tried = Append(@, which),
                        !.model = which]
    /\ cache' = [cache EXCEPT !.model = Cached(which)]
    /\ hist' = [hist EXCEPT !.model_returns = @ \cup {which},
                            !.model_stores = @ + 1]
    /\ run' = [run EXCEPT !.pc = "loaded"]

\* An attempt failed inside its try block: a warning, then the next one.
FallThrough(which, next) ==
    /\ lm' = [lm EXCEPT !.pc = next, !.tried = Append(@, which),
                        !.failed = @ \cup {which}]
    /\ UNCHANGED <<cache, hist, run>>

\* The condition of an attempt is false: on to the next one.
Skip(which, next) ==
    /\ lm' = [lm EXCEPT !.pc = next, !.skipped = @ \cup {which}]
    /\ UNCHANGED <<cache, hist, run>>

\* A plausible slip: a failed load of the local .h5 file is not caught.
LoadModelTryH5_fatal ==
    /\ lm.pc = "h5"
    /\ IF fs.h5 = "absent" THEN Skip("h5", "download")
       ELSE IF fs.h5 = "good" THEN ReturnModel("h5")
       ELSE /\ lm' = [lm EXCEPT !.pc = "raised", !.tried = Append(@, "h5"),
                                !.failed = @ \cup {"h5"}]
            /\ run' = [run EXCEPT !.pc = "stopped"]
            /\ UNCHANGED <<cache, hist>>
    /\ UNCHANGED <<config, call, result, fs, session>>

\* model_utils.py:60-66
LoadModelTryH5 ==
    /\ lm.pc = "h5"
    /\ IF fs.h5 = "absent" THEN Skip("h5", "download")
       ELSE IF fs.h5 = "good" THEN ReturnModel("h5")
       ELSE FallThrough("h5", "download")
    /\ UNCHANGED <<config, call, result, fs, session>>

\* model_utils.py:68-75 with download_file (18-28): the request can fail
\* before the file is opened, or leave a file that does not load (a partial
\* download, or one keras cannot read), or leave one that loads.
DownloadOutcomes == {"loads", "refused", "unloadable"}

LoadModelTryDownload ==
    /\ lm.pc = "download"
    /\ IF ~WEIGHTS_URL
       THEN /\ Skip("download", "pkl")
            /\ UNCHANGED fs
       ELSE \E outcome \in DownloadOutcomes :
              CASE outcome = "loads" ->
                     /\ fs' = [fs EXCEPT !.h5 = "good"]
                     /\ ReturnModel("download")
                [] outcome = "refused" ->
                     /\ UNCHANGED fs
                     /\ FallThrough("download", "pkl")
                [] outcome = "unloadable" ->
                     /\ fs' = [fs EXCEPT !.h5 = "corrupt"]
                     /\ FallThrough("download", "pkl")
    /\ UNCHANGED <<config, call, result, session>>

\* model_utils.py:77-84
LoadModelTryPkl ==
    /\ lm.pc = "pkl"
    /\ IF fs.pkl = "absent" THEN Skip("pkl", "raise")
       ELSE IF fs.pkl = "good" THEN ReturnModel("pkl")
       ELSE FallThrough("pkl", "raise")
    /\ UNCHANGED <<config, call, result, fs, session>>

\* model_utils.py:86: FileNotFoundError, which main reports before it stops
\* the run (streamlit_app.py:53-55). Nothing is stored in the cache.
LoadModelRaise ==
    /\ lm.pc = "raise"
    /\ lm' = [lm EXCEPT !.pc = "raised"]
    /\ run' = [run EXCEPT !.pc = "stopped"]
    /\ UNCHANGED <<config, call, result, fs, cache, hist, session>>

\* Between two runs the files can be replaced from outside the process.
EnvWriteClasses ==
    /\ BetweenRuns
    /\ \E f \in ClassFilesSmall : f # fs.classes /\ fs' = [fs EXCEPT !.classes = f]
    /\ UNCHANGED <<config, call, result, cache, lm, run, hist, session>>

EnvWriteModel ==
    /\ BetweenRuns
    /\ \E st \in FileStates : st # fs.h5 /\ fs' = [fs EXCEPT !.h5 = st]
    /\ UNCHANGED <<config, call, result, cache, lm, run, hist, session>>

LoadNext ==
    \/ RunStart
    \/ CallLoadClassNames
    \/ CallLoadModel
    \/ LoadModelImport
    \/ LoadModelTryH5
    \/ LoadModelTryDownload
    \/ LoadModelTryPkl
    \/ LoadModelRaise
    \/ EnvWriteClasses
    \/ EnvWriteModel

SpecLoad == LoadInit /\ [][LoadNext]_vars

StrategySet == {Strategies[i] : i \in 1..Len(Strategies)}
Pos(which) == CHOOSE i \in 1..Len(Strategies) : Strategies[i] = which

\* The attempts so far were made in the order h5, download, pkl, no attempt
\* twice; a returned model is that of the last attempt, every strategy before
\* it failed or did not apply, and none after it was looked at.
FirstSuccessWins ==
    /\ \A i, j \in 1..Len(lm.tried) : i < j => Pos(lm.tried[i]) < Pos(lm.tried[j])
    /\ lm.failed \subseteq Range(lm.tried)
    /\ lm.pc = "returned" =>
          /\ lm.model \in StrategySet
          /\ lm.tried # <<>> /\ Last(lm.tried) = lm.model
          /\ lm.model \notin lm.failed
          /\ cache.model = Cached(lm.model)
          /\ \A st \in StrategySet :
                /\ Pos(st) < Pos(lm.model) => st \in lm.failed \cup lm.skipped
                /\ Pos(st) > Pos(lm.model) => st \notin Range(lm.tried) \cup lm.skipped
    /\ lm.pc # "returned" => Range(lm.tried) = lm.failed

Exhausted == lm.failed \cup lm.skipped = StrategySet

\* A strategy that cannot be attempted as things are: no file, no URL.
Unavailable(st) ==
    \/ st = "h5" /\ fs.h5 = "absent"
    \/ st = "download" /\ ~WEIGHTS_URL
    \/ st = "pkl" /\ fs.pkl = "absent"

\* C6 as stated: strict order, the first success returns and ends the
\* attempts, a failed attempt falls through, and the call ends fatally only
\* when all three strategies are exhausted: each one failed, was passed over,
\* or has nothing to attempt.
C6_FallbackChainAsStated ==
    /\ FirstSuccessWins
    /\ lm.pc \in {"raised", "stopped"} =>
          \A st \in StrategySet :
              st \in lm.failed \cup lm.skipped \/ Unavailable(st)

\* C6 amended: the same, but the call also ends fatally, before any attempt,
\* when neither tensorflow nor tensorflow_cpu can be imported.
C6_FallbackChain ==
    /\ FirstSuccessWins
    /\ lm.pc = "raised" => Exhausted
    /\ lm.pc = "stopped" =>
          /\ ~fs.tf /\ ~fs.tf_cpu
          /\ lm.tried = <<>> /\ lm.skipped = {}
    /\ (lm.failed # {} /\ lm.pc \notin {"returned", "raised"}) =>
          lm.pc \in {"download", "pkl", "raise"}

C6_Witness ==
    /\ lm.pc = "returned"
    /\ lm.model = "pkl"
    /\ lm.tried = <<"h5", "download", "pkl">>
    /\ lm.failed = {"h5", "download"}

\* Once stored, an entry stays as it is: the class file is not read again and
\* the body of load_model does not run again.
CacheFrozen ==
    /\ [][cache.classes.cached =>
            (cache.classes' = cache.classes /\ hist.file_reads' = hist.file_reads)]_vars
    /\ [][cache.model.cached => (cache.model' = cache.model /\ lm' = lm)]_vars

ReturnsAgree ==
    /\ Cardinality(hist.class_returns) <= 1
    /\ Cardinality(hist.model_returns) <= 1
    /\ hist.class_stores <= 1
    /\ hist.model_stores <= 1

\* C9 as stated: over any sequence of calls the class file is read at most
\* once, every call returns the same sequence, and a stored model or
\* registry is never invalidated or loaded again.
C9_WriteOnceAsStated ==
    /\ [](hist.file_reads <= 1 /\ ReturnsAgree)
    /\ CacheFrozen

\* C9 amended: once a call of load_class_names has returned, the class file
\* is not read again; every call returns the same sequence; a stored model or
\* registry is never invalidated or loaded again. (A call that raises stores
\* nothing, and the next call reads the file again.)
C9_WriteOnce ==
    /\ []ReturnsAgree
    /\ CacheFrozen

\* A second run is served from the cache although the file now holds
\* something else.
C9_Witness ==
    /\ run.n >= 2
    /\ run.pc = "load_model"
    /\ cache.classes.cached
    /\ hist.file_reads = 1
    /\ hist.class_returns = {cache.classes.value}
    /\ ~load_class_names(fs.classes).raised
    /\ load_class_names(fs.classes).value # cache.classes.value

----------------------------------------------------------------------------
(* services/gemini_service.py *)

Whitespace == {" ", "\t", "\r", "\n"}

RECURSIVE lstrip(_)
lstrip(s) == IF s # <<>> /\ Head(s) \in Whitespace THEN lstrip(Tail(s)) ELSE s

RECURSIVE rstrip(_)
rstrip(s) ==
    IF s # <<>> /\ s[Len(s)] \in Whitespace
    THEN rstrip(SubSeq(s, 1, Len(s) - 1)) ELSE s

strip(s) == rstrip(lstrip(s))

startswith(s, prefix) ==
    Len(s) >= Len(prefix) /\ SubSeq(s, 1, Len(prefix)) = prefix

\* `sub in s`
contains(s, sub) ==
    \E i \in 1..(Len(s) - Len(sub) + 1) : SubSeq(s, i, i + Len(sub) - 1) = sub

\* str.replace(old, new): every occurrence, left to right, not overlapping.
RECURSIVE replace(_, _, _)
replace(s, old, new) ==
    IF Len(s) < Len(old) THEN s
    ELSE IF startswith(s, old)
    THEN new \o replace(SubSeq(s, Len(old) + 1, Len(s)), old, new)
    ELSE <<Head(s)>> \o replace(Tail(s), old, new)

\* sep.join(parts)
RECURSIVE join(_, _)
join(sep, parts) ==
    IF parts = <<>> THEN <<>>
    ELSE IF Len(parts) = 1 THEN parts[1]
    ELSE parts[1] \o sep \o join(sep, Tail(parts))

RECURSIVE SelectNonEmpty(_)
SelectNonEmpty(ls) ==
    IF ls = <<>> THEN <<>>
    ELSE IF Head(ls) = <<>> THEN SelectNonEmpty(Tail(ls))
    ELSE <<Head(ls)>> \o SelectNonEmpty(Tail(ls))

\* gemini_service.py:34: the stripped lines that are not blank.
response_lines(text) ==
    LET raw == split(text, "\n")
    IN  SelectNonEmpty([i \in 1..Len(raw) |-> strip(raw[i])])

BulletPrefixes == {<<"1", ".">>, <<"2", ".">>, <<"3", ".">>}
DoctorWord == <<"d", "o", "c", "t", "o", "r">>
ConsultPrefix ==
  <<"W", "h", "e", "n", " ", "t", "o", " ", "s", "e", "e", " ", "a", " ",
      "d", "o", "c", "t", "o", "r", ":">>

\* gemini_service.py:35-42: the loop over the lines.
RECURSIVE parse_lines(_, _, _)
parse_lines(lines, bullets, consult_line) ==
    IF lines = <<>> THEN [bullets |-> bullets, consult |-> consult_line]
    ELSE LET line == Head(lines)
         IN  IF \E p \in BulletPrefixes : startswith(line, p)
             THEN parse_lines(Tail(lines),
                              Append(bullets, strip(SubSeq(line, 3, Len(line)))),
                              consult_line)
             ELSE IF contains(lower(line), DoctorWord)
             THEN parse_lines(Tail(lines), bullets,
                              strip(replace(line, ConsultPrefix, <<>>)))
             ELSE parse_lines(Tail(lines), bullets, consult_line)

FallbackBullet1 ==
  <<"K", "e", "e", "p", " ", "t", "h", "e", " ", "a", "r", "e", "a", " ",
      "c", "l", "e", "a", "n", " ", "a", "n", "d", " ", "d", "r", "y",
      ";", " ", "w", "a", "s", "h", " ", "g", "e", "n", "t", "l", "y",
      " ", "w", "i", "t", "h", " ", "m", "i", "l", "d", " ", "s", "o",
      "a", "p", ".">>
FallbackBullet2 ==
  <<"A", "v", "o", "i", "d", " ", "s", "c", "r", "a", "t", "c", "h", "i",
      "n", "g", " ", "o", "r", " ", "p", "i", "c", "k", "i", "n", "g",
      " ", "a", "t", " ", "t", "h", "e", " ", "a", "r", "e", "a", " ",
      "t", "o", " ", "r", "e", "d", "u", "c", "e", " ", "i", "n", "f",
      "e", "c", "t", "i", "o", "n", " ", "r", "i", "s", "k", ".">>
FallbackBullet3 ==
  <<"U", "s", "e", " ", "g", "e", "n", "t", "l", "e", ",", " ", "f", "r",
      "a", "g", "r", "a", "n", "c", "e", "-", "f", "r", "e", "e", " ",
      "m", "o", "i", "s", "t", "u", "r", "i", "z", "e", "r", "s", " ",
      "a", "n", "d", " ", "a", "v", "o", "i", "d", " ", "k", "n", "o",
      "w", "n", " ", "i", "r", "r", "i", "t", "a", "n", "t", "s", ".">>
FallbackConsult ==
  <<"C", "o", "n", "s", "u", "l", "t", " ", "a", " ", "h", "e", "a", "l",
      "t", "h", "c", "a", "r", "e", " ", "p", "r", "o", "f", "e", "s",
      "s", "i", "o", "n", "a", "l", " ", "i", "f", " ", "s", "y", "m",
      "p", "t", "o", "m", "s", " ", "w", "o", "r", "s", "e", "n", " ",
      "o", "r", " ", "p", "e", "r", "s", "i", "s", "t", ".">>
FallbackAdviceText ==
  <<"K", "e", "e", "p", " ", "t", "h", "e", " ", "a", "r", "e", "a", " ",
      "c", "l", "e", "a", "n", " ", "a", "n", "d", " ", "d", "r", "y",
      ".", " ", "A", "v", "o", "i", "d", " ", "s", "c", "r", "a", "t",
      "c", "h", "i", "n", "g", ".", " ", "U", "s", "e", " ", "g", "e",
      "n", "t", "l", "e", " ", "m", "o", "i", "s", "t", "u", "r", "i",
      "z", "e", "r", "s", ".">>

\* gemini_service.py:57-68
get_fallback_measures ==
    [via |-> "fallback",
     bullets |-> <<FallbackBullet1, FallbackBullet2, FallbackBullet3>>,
     consult |-> FallbackConsult,
     advice_text |-> FallbackAdviceText]

\* What the service does with the prompt is not the program's: the call
\* raises (import, configure, generate_content or response.text), or gives a
\* text.
Raises == [raises |-> TRUE, text |-> <<>>]
Responds(text) == [raises |-> FALSE, text |-> text]

Returns(v) == [raised |-> FALSE, value |-> v]
Propagates == [raised |-> TRUE, value |-> [via |-> "none", bullets |-> <<>>,
                                           consult |-> <<>>, advice_text |-> <<>>]]

\* A plausible slip: the call is made outside the try block.
get_preventive_measures_uncaught(api_key, service) ==
    IF api_key /\ service.raises THEN Propagates
    ELSE IF api_key /\ parse_lines(response_lines(service.text), <<>>, <<>>).bullets # <<>>
    THEN LET p == parse_lines(response_lines(service.text), <<>>, <<>>)
         IN  Returns([via |-> "gemini", bullets |-> p.bullets, consult |-> p.consult,
                      advice_text |-> join(<<" ">>, p.bullets) \o <<" ">> \o p.consult])
    ELSE Returns(get_fallback_measures)

\* gemini_service.py:12-55. The disease and the confidence only go into the
\* prompt; `except Exception` catches whatever the try block raises.
get_preventive_measures_from_gemini(api_key, service) ==
    IF api_key /\ ~service.raises
    THEN LET p == parse_lines(response_lines(service.text), <<>>, <<>>)
         IN  IF p.bullets # <<>>
             THEN Returns([via |-> "gemini", bullets |-> p.bullets,
                           consult |-> p.consult,
                           advice_text |->
                               join(<<" ">>, p.bullets) \o <<" ">> \o p.consult])
             ELSE Returns(get_fallback_measures)
    ELSE Returns(get_fallback_measures)

\* Response texts: up to MaxLines lines, each one of LinePool, joined by
\* newlines.
MaxLines == 4
LinePool ==
    { <<"1", ".", " ", "a">>,
      <<" ", "2", ".", "b", " ">>,
      <<"3", ".">>,
      <<"1", ".", "5", " ", "m", "g">>,
      <<"W", "h", "e", "n", " ", "t", "o", " ", "s", "e", "e", " ", "a", " ",
      "d", "o", "c", "t", "o", "r", ":", " ", "d">>,
      <<"S", "e", "e", " ", "a", " ", "D", "o", "c", "t", "o", "r">>,
      <<"o", "k", " ">> }
ResponseTexts ==
    {join(<<"\n">>, ls) : ls \in UNION {[1..n -> LinePool] : n \in 0..MaxLines}}

AdviceInit ==
    /\ THRESHOLD_MILD = Rat(DefaultMildPercent, 100)
    /\ THRESHOLD_SEVERE = Rat(DefaultSeverePercent, 100)
    /\ HIGH_RISK_DISEASES = {}
    /\ GEMINI_API_KEY \in BOOLEAN
    /\ WEIGHTS_URL = FALSE
    /\ \E svc \in {Raises} \cup {Responds(t) : t \in ResponseTexts} :
           call = [fn |-> "get_preventive_measures_from_gemini", service |-> svc]
    /\ result = NoResult
    /\ NoProcess

CallGetPreventiveMeasures ==
    /\ call.fn = "get_preventive_measures_from_gemini"
    /\ ~result.returned
    /\ LET r == get_preventive_measures_from_gemini(GEMINI_API_KEY, call.service)
       IN  result' = [returned |-> TRUE, raised |-> r.raised, value |-> r.value]
    /\ UNCHANGED <<config, call, procvars>>

AdviceNext == CallGetPreventiveMeasures

SpecAdvice == AdviceInit /\ [][AdviceNext]_vars

AdviceReturned ==
    call.fn = "get_preventive_measures_from_gemini" /\ result.returned

\* No line of the text, stripped, starts with "1.", "2." or "3.".
NoBulletLine(text) ==
    \A i \in 1..Len(response_lines(text)) :
        \A p \in BulletPrefixes : ~startswith(response_lines(text)[i], p)

\* C7: no error reaches the caller; without an API key, when the call
\* raises, or when the text has no bullet line, the result is the fallback
\* payload: via "fallback", exactly 3 bullets, a non-empty consult line.
C7_FallbackNeverRaises ==
    AdviceReturned =>
        /\ ~result.raised
        /\ (\/ ~GEMINI_API_KEY
            \/ call.service.raises
            \/ NoBulletLine(call.service.text)) =>
               /\ result.value.via = "fallback"
               /\ Len(result.value.bullets) = 3
               /\ result.value.consult # <<>>
               /\ result.value = get_fallback_measures

C7_Witness ==
    /\ AdviceReturned
    /\ GEMINI_API_KEY
    /\ call.service.raises
    /\ ~result.raised
    /\ result.value.via = "fallback"

\* C8: in every result, generated or fallback, advice_text is the bullets
\* joined by single spaces, then a space, then the consult line.
C8_AdviceText ==
    (AdviceReturned /\ ~result.raised) =>
        result.value.advice_text =
            join(<<" ">>, result.value.bullets) \o <<" ">> \o result.value.consult

\* The same on the generated path alone, where it holds.
C8_AdviceTextGenerated ==
    (AdviceReturned /\ ~result.raised /\ result.value.via = "gemini") =>
        result.value.advice_text =
            join(<<" ">>, result.value.bullets) \o <<" ">> \o result.value.consult

\* The lines of the text, stripped and non-empty, that start with "1.",
\* "2." or "3.", in order.
IsBulletLine(line) == \E p \in BulletPrefixes : startswith(line, p)
BulletLines(text) == SelectSeq(response_lines(text), IsBulletLine)

\* C13: for any response text the bullets of the result are the lines
\* beginning with "1.", "2." or "3." with the prefix stripped, and no
\* result holds more than 3 bullets.
C13_AtMostThreeBullets ==
    (AdviceReturned /\ ~result.raised) =>
        /\ Len(result.value.bullets) <= 3
        /\ result.value.via = "gemini" =>
              /\ Len(result.value.bullets) = Len(BulletLines(call.service.text))
              /\ \A i \in 1..Len(result.value.bullets) :
                    LET line == BulletLines(call.service.text)[i]
                    IN  result.value.bullets[i] = strip(SubSeq(line, 3, Len(line)))

\* The parsing half alone, which holds: on the generated path the bullets
\* are the bullet lines, one for one and in order, prefix stripped.
C13_BulletsAreBulletLines ==
    (AdviceReturned /\ ~result.raised /\ result.value.via = "gemini") =>
        /\ Len(result.value.bullets) = Len(BulletLines(call.service.text))
        /\ \A i \in 1..Len(result.value.bullets) :
              LET line == BulletLines(call.service.text)[i]
              IN  result.value.bullets[i] = strip(SubSeq(line, 3, Len(line)))

----------------------------------------------------------------------------
(* streamlit_app.py: a script run of main from the upload widget on, and
   perform_analysis. The model and the class names are loaded (lines 47-55
   passed); every interaction with the page runs the script again. *)

AppFiles ==
    {[name |-> <<"p", ".", "p", "n", "g">>, size |-> 1],
     [name |-> <<"p", ".", "P", "n", "g">>, size |-> MAX_FILE_SIZE],
     [name |-> <<"p", ".", "j", "p", "g">>, size |-> MAX_FILE_SIZE + 1],
     [name |-> <<"p", ".", "g">>, size |-> 1]}

AppScores == {<<1, 1>>, <<0, 3>>, <<0, 0>>}
AppClassNames == {<<>>, <<"melanoma", "eczema">>}
AppServices == {Raises, Responds(<<"1", ".", " ", "a">>), Responds(<<>>)}

NoPrediction == [class_id |-> -1, disease |-> "", confidence |-> RZero,
                 probabilities |-> <<>>]
NoMeasures == [via |-> "none", bullets |-> <<>>, consult |-> <<>>,
               advice_text |-> <<>>]

IdleRun ==
    [pc |-> "idle", n |-> 0, uploaded_file |-> NoFile, clicked |-> FALSE,
     class_names |-> <<>>,
     validated |-> FALSE, is_valid |-> FALSE, error |-> "",
     bytes_read |-> FALSE, stages |-> {},
     prediction |-> NoPrediction, severity |-> "", measures |-> NoMeasures,
     returned |-> "nothing", displayed |-> FALSE, history_before |-> 0]

\* Observations of a session: analyses requested (perform_analysis called),
\* analyses whose three stages all returned, analyses that raised.
NoAnalyses == [requested |-> 0, completed |-> 0, failed |-> 0]

Stages == {"predict", "severity", "advice"}

AppInit ==
    /\ THRESHOLD_MILD = Rat(DefaultMildPercent, 100)
    /\ THRESHOLD_SEVERE = Rat(DefaultSeverePercent, 100)
    /\ HIGH_RISK_DISEASES \in {{}, {"melanoma"}}
    /\ GEMINI_API_KEY \in BOOLEAN
    /\ WEIGHTS_URL = FALSE
    /\ call = NoCall
    /\ result = NoResult
    /\ fs = [mounted |-> FALSE]
    /\ cache = [mounted |-> FALSE]
    /\ lm = [pc |-> "idle"]
    /\ hist = NoAnalyses
    /\ run = IdleRun
    /\ session = [has_history |-> FALSE, prediction_history |-> <<>>]

AppBetweenRuns == run.pc \in {"idle", "done", "stopped"}

\* streamlit_app.py:17-73: a new run; prediction_history is created when the
\* session has none; the widgets give the file held by the uploader and the
\* class names come from the cache.
AppRunStart ==
    /\ AppBetweenRuns
    /\ run.n < MaxRuns
    /\ session' = [has_history |-> TRUE,
                   prediction_history |->
                       IF session.has_history THEN session.prediction_history
                       ELSE <<>>]
    /\ \E f \in AppFiles \cup {NoFile}, names \in AppClassNames :
           run' = [IdleRun EXCEPT
                     !.pc = IF f = NoFile THEN "done" ELSE "validate",
                     !.n = run.n + 1,
                     !.uploaded_file = f,
                     !.class_names = names,
                     !.history_before = Len(session.prediction_history)]
    /\ UNCHANGED <<config, call, result, fs, cache, lm, hist>>

\* A plausible slip: the error is shown but the run is not stopped.
AppValidate_no_stop ==
    /\ run.pc = "validate"
    /\ LET v == validate_uploaded_file(run.uploaded_file)
       IN  run' = [run EXCEPT !.validated = TRUE, !.is_valid = v.ok,
                              !.error = IF v.ok THEN "" ELSE v.message,
                              !.pc = "read"]
    /\ UNCHANGED <<config, call, result, fs, cache, lm, hist, session>>

\* streamlit_app.py:75-80: validate; an invalid file is reported and
\* st.stop() ends the run.
AppValidate ==
    /\ run.pc = "validate"
    /\ LET v == validate_uploaded_file(run.uploaded_file)
       IN  run' = [run EXCEPT !.validated = TRUE, !.is_valid = v.ok,
                              !.error = IF v.ok THEN "" ELSE v.message,
                              !.pc = IF v.ok THEN "read" ELSE "stopped"]
    /\ UNCHANGED <<config, call, result, fs, cache, lm, hist, session>>

\* streamlit_app.py:82-85: the bytes are read and previewed.
AppRead ==
    /\ run.pc = "read"
    /\ run' = [run EXCEPT !.bytes_read = TRUE, !.pc = "button"]
    /\ UNCHANGED <<config, call, result, fs, cache, lm, hist, session>>

\* streamlit_app.py:89-98: the button is TRUE in the run its click started.
AppButton ==
    /\ run.pc = "button"
    /\ \E clicked \in BOOLEAN :
           /\ run' = [run EXCEPT !.clicked = clicked,
                                 !.pc = IF clicked THEN "predict" ELSE "done"]
           /\ hist' = [hist EXCEPT !.requested = IF clicked THEN @ + 1 ELSE @]
    /\ UNCHANGED <<config, call, result, fs, cache, lm, session>>

\* A plausible slip: the handler records the failed analysis in the history.
AppPredict_logs_failure ==
    /\ run.pc = "predict"
    /\ \/ /\ \E preds \in AppScores :
                run' = [run EXCEPT
                          !.prediction = predict_image(preds, run.class_names),
                          !.stages = @ \cup {"predict"},
                          !.pc = "severity"]
          /\ UNCHANGED <<hist, session>>
       \/ /\ run' = [run EXCEPT !.stages = @ \cup {"predict"},
                                !.error = "Analysis failed",
                                !.returned = "None",
                                !.pc = "done"]
          /\ hist' = [hist EXCEPT !.failed = @ + 1]
          /\ session' = [session EXCEPT !.prediction_history =
                            Append(@, [disease |-> "", confidence |-> RZero,
                                       severity |-> "mild"])]
    /\ UNCHANGED <<config, call, result, fs, cache, lm>>

\* streamlit_app.py:107-116 and 149-151: predict_image; an exception out of
\* it (bytes that are no image, a model that fails) is reported and
\* perform_analysis returns None.
AppPredict ==
    /\ run.pc = "predict"
    /\ \/ /\ \E preds \in AppScores :
                run' = [run EXCEPT
                          !.prediction = predict_image(preds, run.class_names),
                          !.stages = @ \cup {"predict"},
                          !.pc = "severity"]
          /\ UNCHANGED hist
       \/ /\ run' = [run EXCEPT !.stages = @ \cup {"predict"},
                                !.error = "Analysis failed",
                                !.returned = "None",
                                !.pc = "done"]
          /\ hist' = [hist EXCEPT !.failed = @ + 1]
    /\ UNCHANGED <<config, call, result, fs, cache, lm, session>>

\* streamlit_app.py:118-123 and 149-151: compute_severity; an exception
\* raised by a statement of the stage reaches the handler of line 149.
AppSeverity ==
    /\ run.pc = "severity"
    /\ \/ /\ run' = [run EXCEPT
                       !.severity = compute_severity(run.prediction.confidence,
                                                     run.prediction.disease,
                                                     HIGH_RISK_DISEASES),
                       !.stages = @ \cup {"severity"},
                       !.pc = "advice"]
          /\ UNCHANGED hist
       \/ /\ run' = [run EXCEPT !.stages = @ \cup {"severity"},
                                !.error = "Analysis failed",
                                !.returned = "None",
                                !.pc = "done"]
          /\ hist' = [hist EXCEPT !.failed = @ + 1]
    /\ UNCHANGED <<config, call, result, fs, cache, lm, session>>

\* streamlit_app.py:125-134 and 149-151: the advice call, which returns
\* the fallback when the service fails; an exception raised by another
\* statement of the stage reaches the handler of line 149.
AppAdvice ==
    /\ run.pc = "advice"
    /\ \/ /\ \E svc \in AppServices :
                run' = [run EXCEPT
                          !.measures =
                              get_preventive_measures_from_gemini(GEMINI_API_KEY, svc).value,
                          !.stages = @ \cup {"advice"},
                          !.pc = "append"]
          /\ hist' = [hist EXCEPT !.completed = @ + 1]
       \/ /\ run' = [run EXCEPT !.stages = @ \cup {"advice"},
                                !.error = "Analysis failed",
                                !.returned = "None",
                                !.pc = "done"]
          /\ hist' = [hist EXCEPT !.failed = @ + 1]
    /\ UNCHANGED <<config, call, result, fs, cache, lm, session>>

\* streamlit_app.py:136-147: the entry is appended and the result returned.
AppAppend ==
    /\ run.pc = "append"
    /\ session' = [session EXCEPT !.prediction_history =
                      Append(@, [disease |-> run.prediction.disease,
                                 confidence |-> run.prediction.confidence,
                                 severity |-> run.severity])]
    /\ run' = [run EXCEPT !.returned = "result", !.pc = "display"]
    /\ UNCHANGED <<config, call, result, fs, cache, lm, hist>>

\* streamlit_app.py:99-100: create_results_display(result, image_bytes).
AppDisplay ==
    /\ run.pc = "display"
    /\ run' = [run EXCEPT !.displayed = TRUE, !.pc = "done"]
    /\ UNCHANGED <<config, call, result, fs, cache, lm, hist, session>>

AppNext ==
    \/ AppRunStart
    \/ AppValidate
    \/ AppRead
    \/ AppButton
    \/ AppPredict
    \/ AppSeverity
    \/ AppAdvice
    \/ AppAppend
    \/ AppDisplay

SpecApp == AppInit /\ [][AppNext]_vars

\* C10: in a run whose uploaded file failed validation the error is
\* reported and the run is stopped there: the bytes are not read, no stage
\* of the analysis runs, the history is as it was and nothing is displayed.
C10_InvalidUploadAborts ==
    (/\ run.validated
     /\ ~validate_uploaded_file(run.uploaded_file).ok) =>
        /\ run.pc = "stopped"
        /\ run.error = validate_uploaded_file(run.uploaded_file).message
        /\ ~run.bytes_read
        /\ run.stages = {}
        /\ run.returned = "nothing"
        /\ ~run.displayed
        /\ Len(session.prediction_history) = run.history_before

\* A too large file, in a session that has analysed before.
C10_Witness ==
    /\ run.pc = "stopped"
    /\ run.validated
    /\ run.uploaded_file.size > MAX_FILE_SIZE
    /\ run.error = "File size exceeds limit"
    /\ Len(session.prediction_history) >= 1

\* The entry perform_analysis stores for the analysis of the current run.
EntryOfRun ==
    [disease |-> run.prediction.disease,
     confidence |-> run.prediction.confidence,
     severity |-> compute_severity(run.prediction.confidence,
                                   run.prediction.disease, HIGH_RISK_DISEASES)]

HistoryCounts ==
    LET h == session.prediction_history
    IN  /\ Len(h) = hist.completed - (IF run.pc = "append" THEN 1 ELSE 0)
        /\ AppBetweenRuns => hist.requested = hist.completed + hist.failed
        /\ \A i \in 1..Len(h) :
              h[i].severity =
                  compute_severity(h[i].confidence, h[i].disease, HIGH_RISK_DISEASES)
        /\ run.returned = "result" =>
              /\ run.stages = Stages
              /\ Len(h) = run.history_before + 1
              /\ h[Len(h)] = EntryOfRun
        /\ run.returned = "None" =>
              /\ run.error = "Analysis failed"
              /\ run.pc = "done"
              /\ ~run.displayed
              /\ Len(h) = run.history_before
        /\ run.displayed => run.returned = "result"

HistoryStep ==
    LET h == session.prediction_history
    IN  \/ session.prediction_history' = h
        \/ /\ run.pc = "append"
           /\ run.stages = Stages
           /\ run.returned = "nothing"
           /\ session.prediction_history' = Append(h, EntryOfRun)

\* C14: over any sequence of analysis requests of a session the history
\* holds one entry per analysis whose three stages completed, appended at
\* the end and never altered afterwards; an analysis that fails at a stage
\* leaves the history as it was and returns nothing to display; the
\* severity of every entry is compute_severity of the entry's own
\* confidence and disease.
C14_HistoryFrame == []HistoryCounts /\ [][HistoryStep]_vars

\* A session in which two analyses completed and one failed at the
\* severity stage.
C14_Witness ==
    /\ run.pc = "done"
    /\ run.returned = "None"
    /\ run.stages = {"predict", "severity"}
    /\ hist.failed = 1
    /\ hist.completed = 2
    /\ Len(session.prediction_history) = 2

====
